---- MODULE Spec2Model ----
(***************************************************************************)
(* A model of the concurrent control layer of a-roma: FanController        *)
(* (fan_controller.py), MusicController (music_controller.py) and          *)
(* EventSystem (event_system.py).                                          *)
(*                                                                         *)
(* Scheduling.  The program runs on one asyncio event loop, so a task runs *)
(* until it reaches an await that really suspends.  In _manage_fan the     *)
(* only such awaits are asyncio.wait_for(queue.get(), 1.0) (line 177) and  *)
(* the asyncio.sleep(1) that follows an error (line 193):                  *)
(* Queue.get on a non-empty queue, Queue.put on an unbounded queue and     *)
(* Lock.acquire on a free lock return without suspending, and no task      *)
(* suspends while it holds _fan_states_lock.  One action of the model is   *)
(* therefore one run of a task from a suspension point to the next one,    *)
(* and the API coroutines fan_on, fan_off, get_fan_status and start are    *)
(* one action each.  stop() suspends in `await task` and is several.       *)
(***************************************************************************)
EXTENDS Integers, Sequences, FiniteSets, TLC

\* ------------------------------------------------------------------ bounds
MaxCmds == 2      \* commands accepted by fan_on, fan_off, music_start, music_stop over a run
MaxDur == 2       \* longest duration_seconds submitted
MaxQueued == 1    \* status events waiting in EventSystem._queue (asyncio.Queue() is unbounded)
MaxEvents == 3    \* events the publishers of EventSpec queue over a run
MaxClients == 2   \* callbacks ever given to add_client
MaxFaults == 1    \* driver calls of each controller that raise over a run
MaxStatus == 1    \* calls of each status endpoint that return over a run

\* --------------------------------------------------------- program constants
NumFans == 4                       \* range(4)
Fans == 0 .. (NumFans - 1)
FAN_PINS == <<19, 13, 12, 18>>      \* pin[f] below is the level of pin FAN_PINS[f + 1]
NoFan == -1                        \* "stop() is not awaiting any task"

\* Arguments the callers pass.  The code treats every fan alike, so the valid
\* commands go to two of the four fans; the other two run their loops idle.
CmdFans == {0, 1}
\* The larger specifications (fairness, start and stop) command one fan.
OneFan == {0}
Durations == 1 .. MaxDur
\* Arguments of the calls that may be refused: one valid fan, the two ids next
\* to the range, and the non-positive durations 0 and -5.
FanIdArgs == {-1, 0, NumFans}
DurationArgs == {-5, 0} \cup Durations
\* The callbacks: one closure per WebSocket connection (api.py line 157)
Clients == 1 .. MaxClients
\* The keys of MusicController.song_mapping
Songs == {"1", "2", "3", "4"}
\* The songs the callers start, and the song_id arguments that may be refused
CmdSongs == {"1", "2"}
SongIdArgs == CmdSongs \cup {"5"}
OneSong == {"1"}

VARIABLES
    fan_states,      \* FanController.fan_states
    fan_queues,      \* FanController._fan_queues
    fan_tasks,       \* FanController._fan_tasks, with each task's position
    stop_wait,       \* the fan whose task a running stop() awaits, or NoFan
    gpio_ready,      \* the pins are set up as outputs (setup done, no cleanup since)
    pin,             \* level last driven on each fan's pin
    api_result,      \* how the most recent fan_on / fan_off call ended
    ev_queue,        \* EventSystem._queue
    dispatcher_task, \* EventSystem._dispatcher_task, with its position
    clients,         \* EventSystem._clients
    cycle,           \* _dispatch_events: the event and list(self._clients) of the cycle
    known,           \* history: the callbacks add_client was ever given
    published,       \* history: how many events the publishers of EventSpec queued
    invoked,         \* history: per callback, the events it was called with
    failed,          \* history: the callbacks that raised
    submitted,       \* history: commands accepted for each fan, in order
    applied,         \* history: commands _process_fan_event applied, in order
    gpio_calls,      \* history: GPIO.output calls _manage_fan made, per fan
    currently_playing, \* MusicController.currently_playing, "none" for None
    music_events,    \* MusicController._music_events
    music_task,      \* MusicController._music_management_task, with its position
    mixer_ready,     \* pygame.mixer is initialised (init done, no quit since)
    engine_track,    \* the track pygame.mixer.music is playing, "none" when not busy
    song_files,      \* static/music: the state of each song's MP3 file
    music_result,    \* how the most recent music_start call ended
    music_submitted, \* history: commands accepted by music_start / music_stop
    music_applied,   \* history: commands _process_music_event applied
    faults,          \* history: driver calls that raised, per controller
    ticks,           \* history: timeouts of each fan's wait since its last HIGH call,
                     \* while gpio_on, counted up to MaxDur + 1
    stale,           \* history: how many of the commands in each fan's queue were
                     \* sent before the last start()
    fan_states_lock,   \* _fan_states_lock: "free", "held" by a suspended task, or
                       \* "waited" for by a task that cannot get it
    music_state_lock,  \* _music_state_lock, likewise
    fan_status_calls,  \* history: calls of GET /api/fan/status that returned
    music_status_calls \* history: calls of GET /api/music/status that returned

fanVars == <<fan_states, fan_queues, fan_tasks, stop_wait, gpio_ready, pin,
             api_result, submitted, applied, gpio_calls, ticks, stale,
             fan_states_lock, fan_status_calls>>
evVars == <<ev_queue, dispatcher_task, clients, cycle, known, published, invoked, failed>>
clientVars == <<clients, cycle, known, published, invoked, failed>>
musicVars == <<currently_playing, music_events, music_task, mixer_ready, engine_track,
               song_files, music_result, music_submitted, music_applied,
               music_state_lock, music_status_calls>>
vars == <<fanVars, evVars, musicVars, faults>>

\* ------------------------------------------------------------ FanController

Last(s) == s[Len(s)]

InitialFanState == [remaining_seconds |-> 0, total_seconds |-> 0, gpio_on |-> FALSE]

TurnOn(fan_id, duration_seconds) ==
    [type |-> "turn_on", fan_id |-> fan_id, duration_seconds |-> duration_seconds]

TurnOff(fan_id) == [type |-> "turn_off", fan_id |-> fan_id]

\* mutant: a turn_on adds its duration to what is left
process_fan_event_Adding(states, event) ==
    IF event.type = "turn_on"
    THEN [states EXCEPT ![event.fan_id].remaining_seconds = @ + event.duration_seconds,
                        ![event.fan_id].total_seconds = event.duration_seconds]
    ELSE [states EXCEPT ![event.fan_id].remaining_seconds = 0]

\* mutant: a turn_off clears the duration of the last run as well
process_fan_event_OffClearsTotal(states, event) ==
    IF event.type = "turn_on"
    THEN [states EXCEPT ![event.fan_id].remaining_seconds = event.duration_seconds,
                        ![event.fan_id].total_seconds = event.duration_seconds]
    ELSE [states EXCEPT ![event.fan_id].remaining_seconds = 0,
                        ![event.fan_id].total_seconds = 0]

\* _process_fan_event: the new fan_states
process_fan_event(states, event) ==
    IF event.type = "turn_on"
    THEN [states EXCEPT ![event.fan_id].remaining_seconds = event.duration_seconds,
                        ![event.fan_id].total_seconds = event.duration_seconds]
    ELSE IF event.type = "turn_off"
    THEN [states EXCEPT ![event.fan_id].remaining_seconds = 0]
    ELSE states

\* get_fan_status: the copy of remaining_seconds and total_seconds of every fan
get_fan_status(states) ==
    [f \in Fans |-> [remaining_seconds |-> states[f].remaining_seconds,
                     total_seconds |-> states[f].total_seconds]]

FanStatusEvent(states) == [type |-> "fan_status", data |-> get_fan_status(states)]

(***************************************************************************)
(* asyncio.Lock.  `async with lock` takes a free lock without suspending   *)
(* and releases it when the block is left, by its end or by an exception.  *)
(* A task that finds the lock taken waits for it; a pass record carries    *)
(* the lock in its field lk.                                               *)
(***************************************************************************)
Acquire(m) == [m EXCEPT !.lk = IF @ = "free" THEN "held" ELSE "waited"]

Release(m) == [m EXCEPT !.lk = IF @ = "held" THEN "free" ELSE @]

\* what becomes of a task at the end of a pass: it suspends in wait_for, or it
\* is still waiting for the lock
AfterPass(m) == IF m.lk = "waited" THEN "blocked" ELSE "waiting"

(***************************************************************************)
(* One pass of the loop of _manage_fan works on a record m:                *)
(*   st  fan_states,  q  this fan's queue,  ap  its applied history,       *)
(*   calls  its GPIO.output history,  lvl  the level of its pin,           *)
(*   tk  its count of timeouts,  lk  _fan_states_lock.                     *)
(***************************************************************************)
PassOf(fan_id) ==
    [st |-> fan_states, q |-> fan_queues[fan_id], ap |-> applied[fan_id],
     calls |-> gpio_calls[fan_id], lvl |-> pin[fan_id], tk |-> ticks[fan_id],
     lk |-> fan_states_lock]

\* line 182: wait_for has timed out
TimedOut(m, fan_id) ==
    IF m.st[fan_id].gpio_on /\ m.tk <= MaxDur THEN [m EXCEPT !.tk = @ + 1] ELSE m

\* the count starts again at a HIGH call
TicksAfter(m, fan_id) ==
    IF m.calls # gpio_calls[fan_id] /\ Last(m.calls) = "HIGH" THEN 0 ELSE m.tk

\* mutant: the newest queued command is taken first
TakeEvent_Newest(m) ==
    Release([Acquire(m) EXCEPT !.st = process_fan_event(m.st, m.q[Len(m.q)]),
                               !.q = SubSeq(m.q, 1, Len(m.q) - 1),
                               !.ap = Append(m.ap, m.q[Len(m.q)])])

\* event = await queue.get(); await self._process_fan_event(event), which
\* works under the lock (line 197)
TakeEvent(m) ==
    Release([Acquire(m) EXCEPT !.st = process_fan_event(m.st, Head(m.q)),
                               !.q = Tail(m.q),
                               !.ap = Append(m.ap, Head(m.q))])

\* lines 149-151: while not queue.empty(): get, process
RECURSIVE DrainQueue(_)
DrainQueue(m) == IF m.q = <<>> THEN m ELSE DrainQueue(TakeEvent(m))

\* mutant: HIGH is driven in every pass with time left, gpio_on or not
GpioTurnOn_Always(m, fan_id) ==
    IF m.st[fan_id].remaining_seconds > 0
    THEN [m EXCEPT !.st[fan_id].gpio_on = TRUE,
                   !.calls = Append(m.calls, "HIGH"),
                   !.lvl = "HIGH"]
    ELSE m

\* mutant: a fan that is off is driven high whatever time it has left
GpioTurnOn_Unconditional(m, fan_id) ==
    IF ~m.st[fan_id].gpio_on
    THEN [m EXCEPT !.st[fan_id].gpio_on = TRUE,
                   !.calls = Append(m.calls, "HIGH"),
                   !.lvl = "HIGH"]
    ELSE m

\* lines 157-162: energise
GpioTurnOn(m, fan_id) ==
    IF ~m.st[fan_id].gpio_on /\ m.st[fan_id].remaining_seconds > 0
    THEN [m EXCEPT !.st[fan_id].gpio_on = TRUE,
                   !.calls = Append(m.calls, "HIGH"),
                   !.lvl = "HIGH"]
    ELSE m

\* mutant: LOW is driven in every pass with no time left, gpio_on or not
GpioTurnOff_Always(m, fan_id) ==
    IF m.st[fan_id].remaining_seconds <= 0
    THEN [m EXCEPT !.st[fan_id].remaining_seconds = 0,
                   !.st[fan_id].gpio_on = FALSE,
                   !.calls = Append(m.calls, "LOW"),
                   !.lvl = "LOW"]
    ELSE m

\* mutant: the fan is de-energised with one second still to run
GpioTurnOff_Early(m, fan_id) ==
    IF m.st[fan_id].gpio_on /\ m.st[fan_id].remaining_seconds <= 1
    THEN [m EXCEPT !.st[fan_id].remaining_seconds = 0,
                   !.st[fan_id].gpio_on = FALSE,
                   !.calls = Append(m.calls, "LOW"),
                   !.lvl = "LOW"]
    ELSE m

\* lines 163-169: de-energise
GpioTurnOff(m, fan_id) ==
    IF m.st[fan_id].gpio_on /\ m.st[fan_id].remaining_seconds <= 0
    THEN [m EXCEPT !.st[fan_id].remaining_seconds = 0,
                   !.st[fan_id].gpio_on = FALSE,
                   !.calls = Append(m.calls, "LOW"),
                   !.lvl = "LOW"]
    ELSE m

\* mutant: the status is read inside the locked section
ManageGpio_StatusInside(m, fan_id) ==
    Release(Release(Acquire(GpioTurnOff(GpioTurnOn(Acquire(m), fan_id), fan_id))))

\* lines 153-169: the locked section
ManageGpio(m, fan_id) == Release(GpioTurnOff(GpioTurnOn(Acquire(m), fan_id), fan_id))

\* mutant: the timeout never counts down
Decrement_Never(m, fan_id) == m

\* mutant: the timeout counts down without looking at remaining_seconds
Decrement_Unguarded(m, fan_id) == [m EXCEPT !.st[fan_id].remaining_seconds = @ - 1]

\* mutant: a timeout of one loop counts every running fan down
Decrement_AllFans(m, fan_id) ==
    [m EXCEPT !.st = [f \in Fans |->
                         IF m.st[f].remaining_seconds > 0
                         THEN [m.st[f] EXCEPT !.remaining_seconds = @ - 1]
                         ELSE m.st[f]]]

\* lines 184-187: the decrement after a timeout
Decrement(m, fan_id) ==
    IF m.st[fan_id].remaining_seconds > 0
    THEN [m EXCEPT !.st[fan_id].remaining_seconds = @ - 1]
    ELSE m

\* lines 182-187: wait_for has timed out, the decrement under the lock
OnTimeout(m, fan_id) == Release(Decrement(Acquire(TimedOut(m, fan_id)), fan_id))

\* line 172: get_fan_status takes the lock for its copy (line 133)
ReadStatus(m) == Release(Acquire(m))

\* mutant: every pass counts a second down, whatever ended the wait
LoopPass_TickEveryPass(m, fan_id) == ManageGpio(Decrement(DrainQueue(m), fan_id), fan_id)

\* lines 149-169: from the top of the loop to the publish
LoopPass(m, fan_id) == ManageGpio(DrainQueue(m), fan_id)

\* mutant: the event is put at the head of the queue
queue_event_AtHead(queue, event) == <<event>> \o queue

\* EventSystem.queue_event: put_nowait at the tail
queue_event(queue, event) == Append(queue, event)

\* the pass ends: the state is committed, the status read and published, and the
\* task suspends in wait_for (lines 172-179)
CommitPass(m, fan_id) ==
    /\ Len(ev_queue) < MaxQueued
    /\ fan_states' = m.st
    /\ fan_queues' = [fan_queues EXCEPT ![fan_id] = m.q]
    /\ applied' = [applied EXCEPT ![fan_id] = m.ap]
    /\ gpio_calls' = [gpio_calls EXCEPT ![fan_id] = m.calls]
    /\ pin' = [pin EXCEPT ![fan_id] = m.lvl]
    /\ ticks' = [ticks EXCEPT ![fan_id] = TicksAfter(m, fan_id)]
    /\ ev_queue' = queue_event(ev_queue, FanStatusEvent(m.st))
    /\ fan_states_lock' = ReadStatus(m).lk
    /\ fan_tasks' = [fan_tasks EXCEPT ![fan_id] = AfterPass(ReadStatus(m))]
    /\ stale' = [stale EXCEPT ![fan_id] = 0]
    /\ UNCHANGED <<stop_wait, gpio_ready, api_result, submitted, fan_status_calls,
                   dispatcher_task, clientVars, musicVars, faults>>

\* the task's first run: the first pass
manage_fan_begin(fan_id) ==
    /\ fan_tasks[fan_id] = "new"
    /\ CommitPass(LoopPass(PassOf(fan_id), fan_id), fan_id)

\* wait_for returned an event: process it, then the next pass
manage_fan_event(fan_id) ==
    /\ fan_tasks[fan_id] = "waiting"
    /\ fan_queues[fan_id] # <<>>
    /\ CommitPass(LoopPass(TakeEvent(PassOf(fan_id)), fan_id), fan_id)

\* wait_for timed out: decrement, then the next pass.  The timer may fire just
\* before a command is put, so the queue need not be empty.
manage_fan_timeout(fan_id) ==
    /\ fan_tasks[fan_id] = "waiting"
    /\ CommitPass(LoopPass(OnTimeout(PassOf(fan_id), fan_id), fan_id), fan_id)

\* the task receives the CancelledError of stop()'s task.cancel() (line 189)
manage_fan_cancelled(fan_id) ==
    /\ fan_tasks[fan_id] = "cancelling"
    /\ fan_tasks' = [fan_tasks EXCEPT ![fan_id] = "done"]
    /\ UNCHANGED <<fan_states, fan_queues, stop_wait, gpio_ready, pin, api_result,
                   submitted, applied, gpio_calls, ticks, stale, fan_states_lock,
                   fan_status_calls, evVars, musicVars,
                   faults>>

(***************************************************************************)
(* Driver faults.  GPIO.output may raise (lines 160, 167): the exception   *)
(* leaves the locked section, is caught at line 191, and the task sleeps   *)
(* for a second (line 193) before the next iteration.  Nothing is          *)
(* published in such a pass.                                               *)
(***************************************************************************)

\* the pass is about to call GPIO.output
WouldDrive(m, fan_id) ==
    \/ ~m.st[fan_id].gpio_on /\ m.st[fan_id].remaining_seconds > 0
    \/ m.st[fan_id].gpio_on /\ m.st[fan_id].remaining_seconds <= 0

\* the locked section up to the call that raises: line 164 has run when the
\* call of line 167 raises
FaultPass(m, fan_id) ==
    IF ~m.st[fan_id].gpio_on /\ m.st[fan_id].remaining_seconds > 0
    THEN [m EXCEPT !.calls = Append(m.calls, "HIGH_RAISED")]
    ELSE [m EXCEPT !.st[fan_id].remaining_seconds = 0,
                   !.calls = Append(m.calls, "LOW_RAISED")]

\* mutant: an exception in an iteration ends the loop
AfterFault_Ends == "done"

\* lines 191-193 (and 151-153 of the music loop): log, sleep, go on
AfterFault == "backoff"

\* where an iteration of fan_id's loop may start from: the task's first run or
\* the end of a backoff, a timeout of wait_for, or a command taken by wait_for
FanEntries(fan_id) ==
    IF fan_tasks[fan_id] \in {"new", "backoff"} THEN {PassOf(fan_id)}
    ELSE IF fan_tasks[fan_id] = "waiting"
    THEN {OnTimeout(PassOf(fan_id), fan_id)} \cup
         (IF fan_queues[fan_id] # <<>> THEN {TakeEvent(PassOf(fan_id))} ELSE {})
    ELSE {}

\* an iteration in which GPIO.output raises
manage_fan_fault(fan_id) ==
    /\ faults.fan < MaxFaults
    /\ \E m0 \in FanEntries(fan_id) :
          LET m == DrainQueue(m0) IN
          /\ WouldDrive(m, fan_id)
          /\ fan_states' = FaultPass(m, fan_id).st
          /\ fan_queues' = [fan_queues EXCEPT ![fan_id] = m.q]
          /\ applied' = [applied EXCEPT ![fan_id] = m.ap]
          /\ gpio_calls' = [gpio_calls EXCEPT ![fan_id] = FaultPass(m, fan_id).calls]
          /\ ticks' = [ticks EXCEPT ![fan_id] = m.tk]
          /\ stale' = [stale EXCEPT ![fan_id] = 0]
          /\ fan_states_lock' = Release(FaultPass(Acquire(m), fan_id)).lk
    /\ fan_tasks' = [fan_tasks EXCEPT ![fan_id] = AfterFault]
    /\ faults' = [faults EXCEPT !.fan = @ + 1]
    /\ UNCHANGED <<stop_wait, gpio_ready, pin, api_result, submitted, fan_status_calls,
                   evVars, musicVars>>

\* the backoff is over: the next iteration
manage_fan_resume(fan_id) ==
    /\ fan_tasks[fan_id] = "backoff"
    /\ CommitPass(LoopPass(PassOf(fan_id), fan_id), fan_id)

TotalSubmitted ==
    Len(submitted[0]) + Len(submitted[1]) + Len(submitted[2]) + Len(submitted[3])
        + Len(music_submitted)

\* mutant: only negative durations are refused
fan_on_valid_ZeroAllowed(fan_id, duration_seconds) ==
    /\ fan_id \in Fans
    /\ ~(duration_seconds < 0)

\* lines 104-108 of fan_on
fan_on_valid(fan_id, duration_seconds) ==
    /\ fan_id \in Fans
    /\ ~(duration_seconds <= 0)

\* lines 121-122 of fan_off
fan_off_valid(fan_id) == fan_id \in Fans

Submit(fan_id, event) ==
    /\ TotalSubmitted < MaxCmds
    /\ fan_queues' = [fan_queues EXCEPT ![fan_id] = Append(@, event)]
    /\ submitted' = [submitted EXCEPT ![fan_id] = Append(@, event)]
    /\ api_result' = "ok"

Raise ==
    /\ api_result' = "ValueError"
    /\ UNCHANGED <<fan_queues, submitted>>

fan_on(fan_id, duration_seconds) ==
    /\ IF fan_on_valid(fan_id, duration_seconds)
       THEN Submit(fan_id, TurnOn(fan_id, duration_seconds))
       ELSE Raise
    /\ UNCHANGED <<fan_states, fan_tasks, stop_wait, gpio_ready, pin, applied,
                   gpio_calls, ticks, stale, fan_states_lock,
                   fan_status_calls, evVars, musicVars,
                   faults>>

fan_off(fan_id) ==
    /\ IF fan_off_valid(fan_id)
       THEN Submit(fan_id, TurnOff(fan_id))
       ELSE Raise
    /\ UNCHANGED <<fan_states, fan_tasks, stop_wait, gpio_ready, pin, applied,
                   gpio_calls, ticks, stale, fan_states_lock,
                   fan_status_calls, evVars, musicVars,
                   faults>>

\* start(), lines 51-57: the reset of fan_states
StartStates(states) == [f \in Fans |-> InitialFanState]

\* _setup_gpio: every pin an output, initially low
setup_gpio(levels) == [f \in Fans |-> "LOW"]

\* start(), lines 63-65: a task for every fan that has none
StartTasks(tasks) == [f \in Fans |-> IF tasks[f] = "none" THEN "new" ELSE tasks[f]]

\* start() is called by the application's lifespan, never while a stop() is
\* under way (api.py lines 33-42)
FanController_start ==
    /\ stop_wait = NoFan
    /\ fan_states_lock = "free"
    /\ fan_states' = StartStates(fan_states)
    /\ pin' = setup_gpio(pin)
    /\ gpio_ready' = TRUE
    /\ fan_tasks' = StartTasks(fan_tasks)
    /\ stale' = [f \in Fans |-> Len(fan_queues[f])]
    /\ UNCHANGED <<fan_queues, stop_wait, api_result, submitted, applied,
                   gpio_calls, ticks, fan_states_lock, fan_status_calls, evVars,
                   musicVars, faults>>

\* stop(), lines 72-80 from fan i on: the first fan that has a task, or NumFans
RECURSIVE NextTask(_, _)
NextTask(tasks, i) ==
    IF i >= NumFans THEN NumFans
    ELSE IF tasks[i] # "none" THEN i
    ELSE NextTask(tasks, i + 1)

\* mutant: the cleanup releases the pins without driving them low
StopCleanup_NoDrive ==
    /\ pin' = pin
    /\ gpio_ready' = FALSE

\* stop(), lines 85-95: drive every pin low and clean up; GPIO.output raises on
\* a pin that is not set up, and the error is logged
StopCleanup ==
    /\ pin' = IF gpio_ready THEN [f \in Fans |-> "LOW"] ELSE pin
    /\ gpio_ready' = FALSE

\* stop() from fan i on, until it suspends in `await task` or returns
StopFrom(tasks, i) ==
    LET j == NextTask(tasks, i) IN
    IF j < NumFans
    THEN /\ fan_tasks' = [tasks EXCEPT ![j] = "cancelling"]
         /\ stop_wait' = j
         /\ UNCHANGED <<pin, gpio_ready>>
    ELSE /\ fan_tasks' = tasks
         /\ stop_wait' = NoFan
         /\ StopCleanup

FanController_stop ==
    /\ stop_wait = NoFan
    /\ StopFrom(fan_tasks, 0)
    /\ UNCHANGED <<fan_states, fan_queues, api_result, submitted, applied,
                   gpio_calls, ticks, stale, fan_states_lock,
                   fan_status_calls, evVars, musicVars,
                   faults>>

\* the awaited task has ended: line 80, then the next fan
FanController_stop_resume ==
    /\ stop_wait # NoFan
    /\ fan_tasks[stop_wait] = "done"
    /\ StopFrom([fan_tasks EXCEPT ![stop_wait] = "none"], stop_wait + 1)
    /\ UNCHANGED <<fan_states, fan_queues, api_result, submitted, applied,
                   gpio_calls, ticks, stale, fan_states_lock,
                   fan_status_calls, evVars, musicVars,
                   faults>>

\* ---------------------------------------------------------- MusicController
(***************************************************************************)
(* _manage_music suspends in asyncio.wait_for(queue.get(), 1.0) (line 125) *)
(* and in the error backoff (line 153).  _play_song and _stop_song call    *)
(* pygame synchronously and catch every exception of those calls, so no    *)
(* task suspends while it holds _music_state_lock.                         *)
(***************************************************************************)

StartSong(song_id) == [type |-> "start", song_id |-> song_id]

StopSong == [type |-> "stop"]

\* get_music_status, and the event of line 147
get_music_status(playing) == [currently_playing |-> playing]

MusicStatusEvent(playing) == [type |-> "music_status", data |-> get_music_status(playing)]

(***************************************************************************)
(* One pass of the loop of _manage_music works on a record m:              *)
(*   cp  currently_playing,  q  the command queue,  ap  the applied        *)
(*   history,  eng  the track the engine plays,  lk  _music_state_lock.    *)
(***************************************************************************)
MusicPassOf ==
    [cp |-> currently_playing, q |-> music_events, ap |-> music_applied,
     eng |-> engine_track, lk |-> music_state_lock]

\* mutant: a start is ignored while the engine plays another track
play_song_OnlyWhenIdle(m, song_id) ==
    IF song_id \notin Songs THEN m
    ELSE IF song_files[song_id] = "missing" THEN m
    ELSE IF ~mixer_ready THEN m
    ELSE IF m.eng # "none" THEN m
    ELSE IF song_files[song_id] = "corrupt" THEN [m EXCEPT !.eng = "none"]
    ELSE [m EXCEPT !.eng = song_id, !.cp = song_id]

\* _play_song: an unknown id (line 169) and a missing file (line 174) change
\* nothing; music.stop() raises without a mixer; load raises on a file it
\* cannot decode, after the stop; every exception is caught (line 190)
play_song(m, song_id) ==
    IF song_id \notin Songs THEN m
    ELSE IF song_files[song_id] = "missing" THEN m
    ELSE IF ~mixer_ready THEN m
    ELSE IF song_files[song_id] = "corrupt" THEN [m EXCEPT !.eng = "none"]
    ELSE [m EXCEPT !.eng = song_id, !.cp = song_id]

\* _stop_song: music.stop() raises without a mixer, and line 197 is not reached
stop_song(m) ==
    IF ~mixer_ready THEN m
    ELSE [m EXCEPT !.eng = "none", !.cp = "none"]

\* the body of _process_music_event, lines 158-163
MusicEventBody(m, event) ==
    IF event.type = "start" THEN play_song(m, event.song_id)
    ELSE IF event.type = "stop" THEN stop_song(m)
    ELSE m

\* _process_music_event: the body under the lock (line 157)
process_music_event(m, event) == Release(MusicEventBody(Acquire(m), event))

\* event = await queue.get(); await self._process_music_event(event)
TakeMusicEvent(m) ==
    [process_music_event(m, Head(m.q)) EXCEPT !.q = Tail(m.q),
                                              !.ap = Append(m.ap, Head(m.q))]

\* lines 135-137: while not queue.empty(): get, process
RECURSIVE DrainMusic(_)
DrainMusic(m) == IF m.q = <<>> THEN m ELSE DrainMusic(TakeMusicEvent(m))

\* mutant: the loop never asks the engine whether it is busy
CheckFinished_Never(m) == m

\* lines 140-142: get_busy() is false when the engine plays nothing
CheckFinished(m) ==
    IF m.cp # "none" /\ m.eng = "none"
    THEN Release([Acquire(m) EXCEPT !.cp = "none"])
    ELSE m

\* lines 135-142: the drain and the check
MusicPass(m) == CheckFinished(DrainMusic(m))

\* the pass ends: the state is committed, the status read and published, and the
\* task suspends in wait_for again (lines 146-147, 125)
CommitMusicPass(m) ==
    /\ Len(ev_queue) < MaxQueued
    /\ currently_playing' = m.cp
    /\ music_events' = m.q
    /\ music_applied' = m.ap
    /\ engine_track' = m.eng
    /\ ev_queue' = queue_event(ev_queue, MusicStatusEvent(m.cp))
    /\ music_state_lock' = ReadStatus(m).lk
    /\ music_task' = AfterPass(ReadStatus(m))
    /\ UNCHANGED <<mixer_ready, song_files, music_result, music_submitted,
                   music_status_calls, fanVars, faults, dispatcher_task, clientVars>>

\* the task's first run, up to wait_for
manage_music_begin ==
    /\ music_task = "new"
    /\ music_task' = "waiting"
    /\ UNCHANGED <<currently_playing, music_events, mixer_ready, engine_track, song_files,
                   music_result, music_state_lock,
                   music_status_calls, music_submitted, music_applied, fanVars, faults, evVars>>

\* wait_for returned a command: process it, then the rest of the pass
manage_music_event ==
    /\ music_task = "waiting"
    /\ music_events # <<>>
    /\ CommitMusicPass(MusicPass(TakeMusicEvent(MusicPassOf)))

\* wait_for timed out: the rest of the pass.  The timer may fire just before a
\* command is put, so the queue need not be empty.
manage_music_timeout ==
    /\ music_task = "waiting"
    /\ CommitMusicPass(MusicPass(MusicPassOf))

\* the task receives the CancelledError of stop()'s task.cancel() (line 149)
manage_music_cancelled ==
    /\ music_task = "cancelling"
    /\ music_task' = "done"
    /\ UNCHANGED <<currently_playing, music_events, mixer_ready, engine_track, song_files,
                   music_result, music_state_lock,
                   music_status_calls, music_submitted, music_applied, fanVars, faults, evVars>>

\* where an iteration of the music loop may go on from, once wait_for is over
MusicEntries ==
    IF music_task = "waiting"
    THEN {MusicPassOf} \cup
         (IF music_events # <<>> THEN {TakeMusicEvent(MusicPassOf)} ELSE {})
    ELSE {}

\* an iteration in which pygame.mixer.music.get_busy() raises (line 140): the
\* commands are applied, nothing is published, the task sleeps (line 153)
manage_music_fault ==
    /\ faults.music < MaxFaults
    /\ \E m0 \in MusicEntries :
          LET m == DrainMusic(m0) IN
          /\ m.cp # "none"
          /\ currently_playing' = m.cp
          /\ music_events' = m.q
          /\ music_applied' = m.ap
          /\ engine_track' = m.eng
          /\ music_state_lock' = m.lk
    /\ music_task' = AfterFault
    /\ faults' = [faults EXCEPT !.music = @ + 1]
    /\ UNCHANGED <<mixer_ready, song_files, music_result, music_submitted,
                   music_status_calls, fanVars, evVars>>

\* the backoff is over: the next iteration suspends in wait_for
manage_music_resume ==
    /\ music_task = "backoff"
    /\ music_task' = "waiting"
    /\ UNCHANGED <<currently_playing, music_events, mixer_ready, engine_track, song_files,
                   music_result, music_state_lock,
                   music_status_calls, music_submitted, music_applied, fanVars, evVars, faults>>

\* mutant: every song_id is accepted
music_start_valid_Any(song_id) == TRUE

\* line 95 of music_start
music_start_valid(song_id) == song_id \in Songs

SubmitMusic(event) ==
    /\ TotalSubmitted < MaxCmds
    /\ music_events' = Append(music_events, event)
    /\ music_submitted' = Append(music_submitted, event)
    /\ music_result' = "ok"

music_start(song_id) ==
    /\ IF music_start_valid(song_id)
       THEN SubmitMusic(StartSong(song_id))
       ELSE /\ music_result' = "ValueError"
            /\ UNCHANGED <<music_events, music_submitted>>
    /\ UNCHANGED <<currently_playing, music_task, mixer_ready, engine_track, song_files,
                   music_applied, music_state_lock, music_status_calls, fanVars,
                   faults, evVars>>

music_stop ==
    /\ SubmitMusic(StopSong)
    /\ UNCHANGED <<currently_playing, music_task, mixer_ready, engine_track, song_files,
                   music_applied, music_state_lock, music_status_calls, fanVars,
                   faults, evVars>>

\* start(), lines 61-67: nothing at all while a task exists
MusicController_start ==
    /\ music_task = "none"
    /\ music_state_lock = "free"
    /\ currently_playing' = "none"
    /\ music_task' = "new"
    /\ UNCHANGED <<music_events, mixer_ready, engine_track, song_files, music_result,
                   music_state_lock, music_status_calls,
                   music_submitted, music_applied, fanVars, faults, evVars>>

\* stop(), lines 82-87: music.stop() and mixer.quit(); without a mixer
\* music.stop() raises and the error is logged
MusicCleanup ==
    /\ engine_track' = "none"
    /\ mixer_ready' = FALSE

\* stop() up to `await task` (line 75), or to its end when there is no task
MusicController_stop ==
    /\ music_task \in {"none", "new", "waiting"}
    /\ IF music_task = "none"
       THEN MusicCleanup /\ UNCHANGED music_task
       ELSE music_task' = "cancelling" /\ UNCHANGED <<engine_track, mixer_ready>>
    /\ UNCHANGED <<currently_playing, music_events, song_files, music_result,
                   music_state_lock, music_status_calls,
                   music_submitted, music_applied, fanVars, faults, evVars>>

\* the awaited task has ended: line 78, then the cleanup
MusicController_stop_resume ==
    /\ music_task = "done"
    /\ music_task' = "none"
    /\ MusicCleanup
    /\ UNCHANGED <<currently_playing, music_events, song_files, music_result,
                   music_state_lock, music_status_calls,
                   music_submitted, music_applied, fanVars, faults, evVars>>

\* the engine plays the track to its end, outside any command
track_ends ==
    /\ engine_track # "none"
    /\ engine_track' = "none"
    /\ UNCHANGED <<currently_playing, music_events, music_task, mixer_ready, song_files,
                   music_result, music_state_lock,
                   music_status_calls, music_submitted, music_applied, fanVars, faults, evVars>>

\* the music directory: a song's file is removed, or is not an MP3 the engine
\* can decode
song_file_set(song_id, what) ==
    /\ song_files[song_id] = "ok"
    /\ song_files' = [song_files EXCEPT ![song_id] = what]
    /\ UNCHANGED <<currently_playing, music_events, music_task, mixer_ready, engine_track,
                   music_result, music_state_lock,
                   music_status_calls, music_submitted, music_applied, fanVars, faults, evVars>>

\* GET /api/fan/status (api.py line 102): get_fan_status takes the lock, copies
\* and returns; a caller that finds the lock taken waits for it
api_get_fan_status ==
    /\ fan_status_calls < MaxStatus
    /\ ReadStatus([lk |-> fan_states_lock]).lk = "free"
    /\ fan_status_calls' = fan_status_calls + 1
    /\ UNCHANGED <<fan_states, fan_queues, fan_tasks, stop_wait, gpio_ready, pin,
                   api_result, submitted, applied, gpio_calls, ticks, stale,
                   fan_states_lock, evVars, musicVars, faults>>

\* GET /api/music/status (api.py line 128)
api_get_music_status ==
    /\ music_status_calls < MaxStatus
    /\ ReadStatus([lk |-> music_state_lock]).lk = "free"
    /\ music_status_calls' = music_status_calls + 1
    /\ UNCHANGED <<currently_playing, music_events, music_task, mixer_ready,
                   engine_track, song_files, music_result, music_submitted,
                   music_applied, music_state_lock, fanVars, faults, evVars>>

\* --------------------------------------------------------------- EventSystem

NoClient == 0

NoCycle ==
    [event |-> [type |-> "none", id |-> 0], snapshot |-> {}, pending |-> {},
     current |-> NoClient]

start_dispatcher ==
    /\ dispatcher_task = "none"
    /\ dispatcher_task' = "waiting"
    /\ UNCHANGED <<fanVars, musicVars, faults, ev_queue, clientVars>>

\* a publisher calls queue_event; the events are numbered in the order of the calls
publish ==
    /\ published < MaxEvents
    /\ published' = published + 1
    /\ ev_queue' = queue_event(ev_queue, [type |-> "event", id |-> published + 1])
    /\ UNCHANGED <<fanVars, musicVars, faults, dispatcher_task, clients, cycle, known, invoked, failed>>

\* add_client: the endpoint registers the closure it has just made (api.py line 160)
add_client(client) ==
    /\ client \notin known
    /\ clients' = clients \cup {client}
    /\ known' = known \cup {client}
    /\ UNCHANGED <<fanVars, musicVars, faults, ev_queue, dispatcher_task, cycle, published, invoked, failed>>

\* remove_client: discard, whether or not the callback is still registered
remove_client(client) ==
    /\ client \in known
    /\ clients' = clients \ {client}
    /\ UNCHANGED <<fanVars, musicVars, faults, ev_queue, dispatcher_task, cycle, known, published,
                   invoked, failed>>

\* _dispatch_events with no client registered: every queued event is taken and
\* delivered to nobody, until queue.get() suspends on the empty queue
dispatch_events_drain ==
    /\ dispatcher_task = "waiting"
    /\ ev_queue # <<>>
    /\ clients = {}
    /\ ev_queue' = <<>>
    /\ UNCHANGED <<fanVars, musicVars, faults, dispatcher_task, clientVars>>

\* line 59: client(event) is called and runs up to its first suspension; the
\* for loop takes the clients of the copy in the order of the set
BeginCall(cyc, client) ==
    /\ cycle' = [cyc EXCEPT !.pending = @ \ {client}, !.current = client]
    /\ invoked' = [invoked EXCEPT ![client] = Append(@, cyc.event.id)]
    /\ dispatcher_task' = "delivering"

\* lines 56-59: the next event, the copy list(self._clients) and the first call
dispatch_events_get ==
    /\ dispatcher_task = "waiting"
    /\ ev_queue # <<>>
    /\ clients # {}
    /\ \E c \in clients :
          BeginCall([event |-> Head(ev_queue), snapshot |-> clients,
                     pending |-> clients, current |-> NoClient], c)
    /\ ev_queue' = Tail(ev_queue)
    /\ UNCHANGED <<fanVars, musicVars, faults, clients, known, published, failed>>

\* mutant: the for loop ends after the first client that was served
AfterClient_OnlyFirst(client) == {}

\* the for loop goes on to the next client of the copy
AfterClient(client) == cycle.pending \ {client}

\* the call of `client` is over: the next call of the cycle begins, or the
\* dispatcher is back at queue.get()
CallClient(client, rest) ==
    /\ dispatcher_task = "delivering"
    /\ cycle.current = client
    /\ IF rest = {}
       THEN /\ cycle' = [cycle EXCEPT !.pending = {}, !.current = NoClient]
            /\ dispatcher_task' = "waiting"
            /\ UNCHANGED invoked
       ELSE \E n \in rest : BeginCall([cycle EXCEPT !.pending = rest], n)
    /\ UNCHANGED <<fanVars, musicVars, faults, ev_queue, known, published>>

\* line 59: await client(event) returns
dispatch_events_deliver(client) ==
    /\ CallClient(client, AfterClient(client))
    /\ UNCHANGED <<clients, failed>>

\* mutant: the exception of one client ends the cycle
AfterRaise_EndsCycle(client) == {}

\* lines 60-62: the exception is caught inside the for loop, which goes on
AfterRaise(client) == cycle.pending \ {client}

\* lines 60-62: await client(event) raises; the client is discarded
dispatch_events_raise(client) ==
    /\ CallClient(client, AfterRaise(client))
    /\ clients' = clients \ {client}
    /\ failed' = failed \cup {client}

\* ------------------------------------------------------------ specifications

Init ==
    /\ fan_states = [f \in Fans |-> InitialFanState]
    /\ fan_queues = [f \in Fans |-> <<>>]
    /\ fan_tasks = [f \in Fans |-> "none"]
    /\ stop_wait = NoFan
    /\ gpio_ready = FALSE
    /\ pin = [f \in Fans |-> "UNSET"]
    /\ api_result = "none"
    /\ ev_queue = <<>>
    /\ dispatcher_task = "none"
    /\ clients = {}
    /\ cycle = NoCycle
    /\ known = {}
    /\ published = 0
    /\ invoked = [c \in Clients |-> <<>>]
    /\ failed = {}
    /\ submitted = [f \in Fans |-> <<>>]
    /\ applied = [f \in Fans |-> <<>>]
    /\ gpio_calls = [f \in Fans |-> <<>>]
    /\ currently_playing = "none"
    /\ music_events = <<>>
    /\ music_task = "none"
    /\ mixer_ready = TRUE
    /\ engine_track = "none"
    /\ song_files = [s \in Songs |-> "ok"]
    /\ music_result = "none"
    /\ music_submitted = <<>>
    /\ music_applied = <<>>
    /\ faults = [fan |-> 0, music |-> 0]
    /\ ticks = [f \in Fans |-> 0]
    /\ stale = [f \in Fans |-> 0]
    /\ fan_states_lock = "free"
    /\ music_state_lock = "free"
    /\ fan_status_calls = 0
    /\ music_status_calls = 0

\* the four fan loops
FanLoops ==
    \/ \E f \in Fans : manage_fan_begin(f)
    \/ \E f \in Fans : manage_fan_event(f)
    \/ \E f \in Fans : manage_fan_timeout(f)

\* the dispatcher of a process in which no WebSocket client is connected
IdleDispatcher ==
    \/ start_dispatcher
    \/ dispatch_events_drain

\* The controller in operation: start(), the loops, commands with valid arguments
Next ==
    \/ FanLoops
    \/ IdleDispatcher
    \/ FanController_start
    \/ \E id \in CmdFans, d \in Durations : fan_on(id, d)
    \/ \E id \in CmdFans : fan_off(id)

Spec == Init /\ [][Next]_vars

\* The controller in operation, its callers passing arbitrary arguments
ApiNext ==
    \/ FanLoops
    \/ IdleDispatcher
    \/ FanController_start
    \/ \E id \in FanIdArgs, d \in DurationArgs : fan_on(id, d)
    \/ \E id \in FanIdArgs : fan_off(id)

ApiSpec == Init /\ [][ApiNext]_vars

\* The controller started, stopped and started again, one fan commanded
LifeNext ==
    \/ FanLoops
    \/ \E f \in Fans : manage_fan_cancelled(f)
    \/ IdleDispatcher
    \/ FanController_start
    \/ FanController_stop
    \/ FanController_stop_resume
    \/ \E id \in OneFan, d \in Durations : fan_on(id, d)
    \/ \E id \in OneFan : fan_off(id)

LifeSpec == Init /\ [][LifeNext]_vars

\* The music controller in operation, its callers passing arbitrary song ids
MusicLoop ==
    \/ manage_music_begin
    \/ manage_music_event
    \/ manage_music_timeout

MusicNext ==
    \/ MusicLoop
    \/ IdleDispatcher
    \/ MusicController_start
    \/ \E id \in SongIdArgs : music_start(id)
    \/ music_stop
    \/ track_ends
    \/ \E id \in CmdSongs : song_file_set(id, "missing")
    \/ \E id \in CmdSongs : song_file_set(id, "corrupt")

MusicSpec == Init /\ [][MusicNext]_vars

\* Both controllers started, stopped and started again (api.py lines 33-42),
\* one fan and one song commanded
ShutdownNext ==
    \/ LifeNext
    \/ MusicLoop
    \/ manage_music_cancelled
    \/ MusicController_start
    \/ MusicController_stop
    \/ MusicController_stop_resume
    \/ \E id \in OneSong : music_start(id)
    \/ music_stop
    \/ track_ends

\* The same with the status endpoints called at any time
LockNext ==
    \/ ShutdownNext
    \/ api_get_fan_status
    \/ api_get_music_status

LockSpec == Init /\ [][LockNext]_vars

\* A cancelled task is run by the event loop and ends, and the stop() that
\* awaits a task is resumed when the task has ended.
ShutdownSpec ==
    /\ Init
    /\ [][ShutdownNext]_vars
    /\ \A f \in Fans : WF_vars(manage_fan_cancelled(f))
    /\ WF_vars(FanController_stop_resume)
    /\ WF_vars(manage_music_cancelled)
    /\ WF_vars(MusicController_stop_resume)

\* Both controllers in operation with drivers that may raise, one fan and one
\* song commanded
FaultNext ==
    \/ FanLoops
    \/ IdleDispatcher
    \/ FanController_start
    \/ \E id \in OneFan, d \in Durations : fan_on(id, d)
    \/ \E id \in OneFan : fan_off(id)
    \/ \E f \in Fans : manage_fan_fault(f)
    \/ \E f \in Fans : manage_fan_resume(f)
    \/ MusicLoop
    \/ MusicController_start
    \/ \E id \in OneSong : music_start(id)
    \/ music_stop
    \/ track_ends
    \/ manage_music_fault
    \/ manage_music_resume

FaultSpec == Init /\ [][FaultNext]_vars

\* The dispatcher with publishers and WebSocket clients
EventNext ==
    \/ start_dispatcher
    \/ publish
    \/ \E c \in Clients : add_client(c)
    \/ \E c \in Clients : remove_client(c)
    \/ dispatch_events_drain
    \/ dispatch_events_get
    \/ \E c \in Clients : dispatch_events_deliver(c)
    \/ \E c \in Clients : dispatch_events_raise(c)

EventSpec == Init /\ [][EventNext]_vars

\* The same under fair scheduling: the dispatcher runs when an event is queued,
\* and a call of a callback comes to an end, by returning or by raising.
EventFairSpec ==
    /\ EventSpec
    /\ WF_vars(dispatch_events_get)
    /\ WF_vars(dispatch_events_drain)
    /\ \A c \in Clients : WF_vars(dispatch_events_deliver(c) \/ dispatch_events_raise(c))

(***************************************************************************)
(* Fair scheduling.  A wait_for that is pending times out after one second *)
(* whatever the other tasks do, and the dispatcher runs when an event is   *)
(* queued.  In the model a timeout is disabled while ev_queue is at its    *)
(* bound, so it gets strong fairness: a timeout that is enabled again and  *)
(* again is taken.  TimeoutEnabled(f) is ENABLED <<manage_fan_timeout(f)>> *)
(* _vars written out (TimeoutEnabledIsEnabled, an invariant of Spec), and  *)
(* StrongFair(f) is SF_vars(manage_fan_timeout(f)) with it.                *)
(***************************************************************************)
TimeoutEnabled(f) == fan_tasks[f] = "waiting" /\ Len(ev_queue) < MaxQueued

TimeoutEnabledIsEnabled ==
    \A f \in Fans : TimeoutEnabled(f) <=> ENABLED <<manage_fan_timeout(f)>>_vars

StrongFair(f) == <>[](~TimeoutEnabled(f)) \/ []<><<manage_fan_timeout(f)>>_vars

\* The controller in operation, one fan commanded, under fair scheduling
FairNext ==
    \/ FanLoops
    \/ IdleDispatcher
    \/ FanController_start
    \/ \E id \in OneFan, d \in Durations : fan_on(id, d)
    \/ \E id \in OneFan : fan_off(id)

FairSpec ==
    /\ Init
    /\ [][FairNext]_vars
    /\ \A f \in OneFan : StrongFair(f)
    /\ WF_vars(dispatch_events_drain)

\* ------------------------------------------------------------------- helpers

IsPrefix(s, t) == Len(s) <= Len(t) /\ \A i \in 1 .. Len(s) : s[i] = t[i]

\* fan f is de-energised: nothing left to run, gpio_on false, the pin low
Settled(f) ==
    /\ fan_states[f].remaining_seconds = 0
    /\ ~fan_states[f].gpio_on
    /\ pin[f] = "LOW"

\* the only command ever submitted for fan f is a fan_on(f, d), and it is applied
OnlyOn(f, d) ==
    /\ submitted[f] = <<TurnOn(f, d)>>
    /\ applied[f] = <<TurnOn(f, d)>>

\* -------------------------------------------------------------------- claims

(***************************************************************************)
(* C1.  A fan_on(f, d), d > 0, applied to an idle fan of a running         *)
(* controller, with no further command for f: remaining_seconds eventually *)
(* reaches 0 with the pin low and gpio_on false, and from then on the fan  *)
(* stays so.                                                               *)
(***************************************************************************)
C1_RunsDownAndStaysOff ==
    /\ \A f \in OneFan :
          ((\E d \in Durations : OnlyOn(f, d)) /\ dispatcher_task = "waiting")
             ~> (Settled(f) \/ Len(submitted[f]) > 1)
    /\ [][\A f \in OneFan, d \in Durations :
             (OnlyOn(f, d) /\ Settled(f) /\ submitted'[f] = submitted[f]) => Settled(f)']_vars

\* fan 0 ran its two seconds down: driven high, then low by the loop
C1_Witness ==
    /\ OnlyOn(0, 2)
    /\ gpio_calls[0] = <<"HIGH", "LOW">>
    /\ Settled(0)

(***************************************************************************)
(* C2.  No flapping: with a single fan_on(f, d) as the only command of fan *)
(* f, the loop's drive calls on f's pin are one HIGH, then one LOW, and    *)
(* nothing after; gpio_on is true exactly between the two.                 *)
(***************************************************************************)
C2_NoFlapping ==
    \A f \in Fans : \A d \in Durations :
        submitted[f] = <<TurnOn(f, d)>> =>
            /\ IsPrefix(gpio_calls[f], <<"HIGH", "LOW">>)
            /\ fan_states[f].gpio_on => gpio_calls[f] = <<"HIGH">>
            /\ gpio_calls[f] = <<"HIGH", "LOW">> => Settled(f)
            /\ applied[f] = <<>> => gpio_calls[f] = <<>>

\* the single fan_on has run down, and the loop has gone through further passes
C2_Witness ==
    /\ submitted[0] = <<TurnOn(0, 1)>>
    /\ gpio_calls[0] = <<"HIGH", "LOW">>
    /\ fan_tasks[0] = "waiting"
    /\ ev_queue # <<>>
    /\ Last(ev_queue).data[0].remaining_seconds = 0

(***************************************************************************)
(* C3.  A fan_on(f, d2) applied while fan f still has remaining_seconds >  *)
(* 0 sets remaining_seconds and total_seconds to exactly d2: no            *)
(* accumulation, no carry-over, whether it is taken by the timed wait or   *)
(* by the drain after a timeout.                                           *)
(***************************************************************************)
C3_SecondOnResets ==
    [][\A f \in Fans :
          (/\ fan_states[f].remaining_seconds > 0
           /\ applied'[f] # applied[f]
           /\ Last(applied'[f]).type = "turn_on")
          => /\ fan_states'[f].remaining_seconds = Last(applied'[f]).duration_seconds
             /\ fan_states'[f].total_seconds = Last(applied'[f]).duration_seconds]_vars

\* fan 1 was running for 2 seconds when a fan_on(1, 1) was applied
C3_Witness ==
    /\ applied[1] = <<TurnOn(1, 2), TurnOn(1, 1)>>
    /\ gpio_calls[1] = <<"HIGH">>
    /\ fan_states[1].remaining_seconds = 1
    /\ fan_states[1].total_seconds = 1

(***************************************************************************)
(* C4.  fan_on with duration_seconds <= 0 or fan_id outside 0..3, and      *)
(* fan_off with fan_id outside 0..3, raise ValueError, enqueue nothing and *)
(* leave every fan's state and output as they were.                        *)
(***************************************************************************)
Refused ==
    /\ api_result' = "ValueError"
    /\ UNCHANGED <<fan_queues, fan_states, fan_tasks, pin, gpio_calls, submitted, applied>>

C4_InvalidArgumentsRefused ==
    [][/\ \A id \in FanIdArgs, d \in DurationArgs :
             (fan_on(id, d) /\ (d <= 0 \/ id \notin 0 .. 3)) => Refused
       /\ \A id \in FanIdArgs :
             (fan_off(id) /\ id \notin 0 .. 3) => Refused]_vars

\* a call was refused while fan 0 was running
C4_Witness ==
    /\ api_result = "ValueError"
    /\ fan_states[0].gpio_on
    /\ fan_queues[0] # <<>>

(***************************************************************************)
(* C5.  Every fan_status event queued to the dispatcher is the copy of     *)
(* fan_states taken by get_fan_status in the pass that publishes it, and   *)
(* no queued event shows a remaining_seconds below 0.                      *)
(***************************************************************************)
StatusOf(states) ==
    [f \in 0 .. 3 |-> [remaining_seconds |-> states[f].remaining_seconds,
                       total_seconds |-> states[f].total_seconds]]

C5_EventsAreCommittedSnapshots ==
    /\ [](\A i \in DOMAIN ev_queue :
             /\ ev_queue[i].type = "fan_status"
             /\ \A f \in 0 .. 3 : ev_queue[i].data[f].remaining_seconds >= 0)
    /\ [][(ev_queue' # ev_queue /\ ev_queue' # <<>>) =>
             /\ ev_queue' = Append(ev_queue, Last(ev_queue'))
             /\ Last(ev_queue').data = StatusOf(fan_states')]_vars

\* a queued snapshot taken while fan 0 had counted down to 1 of 2 and fan 1 ran
C5_Witness ==
    /\ ev_queue # <<>>
    /\ Last(ev_queue).data[0] = [remaining_seconds |-> 1, total_seconds |-> 2]
    /\ Last(ev_queue).data[1].remaining_seconds > 0
    /\ Last(ev_queue).data[2].remaining_seconds = 0

(***************************************************************************)
(* C6.  A fan_off applied to a fan that is idle (gpio_on false,            *)
(* remaining_seconds 0) causes no drive call on that fan's pin and leaves  *)
(* gpio_on false.                                                          *)
(***************************************************************************)
C6_OffOnIdleFanDrivesNothing ==
    [][\A f \in Fans :
          (/\ ~fan_states[f].gpio_on
           /\ fan_states[f].remaining_seconds = 0
           /\ applied'[f] = Append(applied[f], TurnOff(f)))
          => /\ gpio_calls'[f] = gpio_calls[f]
             /\ pin'[f] = pin[f]
             /\ ~fan_states'[f].gpio_on]_vars

\* the loop of fan 0 has applied a fan_off to the idle fan and gone on
C6_Witness ==
    /\ applied[0] = <<TurnOff(0)>>
    /\ fan_tasks[0] = "waiting"
    /\ gpio_calls[0] = <<>>
    /\ pin[0] = "LOW"

(***************************************************************************)
(* C9.  Every command accepted for a fan is applied exactly once and in    *)
(* the order of submission: what was applied, followed by what still       *)
(* waits in the fan's queue, is what was submitted.                        *)
(***************************************************************************)
C9_AppliedOnceInOrder ==
    \A f \in Fans : applied[f] \o fan_queues[f] = submitted[f]

\* two commands of fan 0 were taken in one pass by the drain: the fan_off
\* followed the fan_on before the locked section, so the fan was never driven
C9_Witness ==
    /\ applied[0] = <<TurnOn(0, 2), TurnOff(0)>>
    /\ fan_queues[0] = <<>>
    /\ gpio_calls[0] = <<>>
    /\ fan_states[0].total_seconds = 2

(***************************************************************************)
(* C10.  start() on a controller whose loops are running is a no-op: it    *)
(* leaves fan_states, the output levels and the set of tasks unchanged.    *)
(***************************************************************************)
C10_StartIsIdempotent ==
    [][(FanController_start /\ \A f \in Fans : fan_tasks[f] = "waiting")
          => UNCHANGED <<fan_states, pin, fan_tasks>>]_vars

(***************************************************************************)
(* C7.  A callback that fails while it is delivered event k is evicted and *)
(* never invoked again; the other callbacks of the cycle still get event   *)
(* k, only the failing one is discarded, and the dispatcher goes on.       *)
(***************************************************************************)
C7_FailingSubscriberEvicted ==
    /\ [](/\ \A c \in cycle.snapshot \ cycle.pending :
                /\ invoked[c] # <<>>
                /\ Last(invoked[c]) = cycle.event.id
          /\ failed # {} => dispatcher_task \in {"waiting", "delivering"})
    /\ [][/\ \A c \in failed : invoked'[c] = invoked[c]
          /\ \A c \in failed' \ failed : clients' = clients \ {c}]_vars

\* callback 1 failed on its second delivery: one successful delivery, then
\* nothing, while callback 2 got all three events
C7_Witness ==
    /\ 1 \in failed
    /\ invoked[1] = <<1, 2>>
    /\ invoked[2] = <<1, 2, 3>>
    /\ 2 \notin failed

(***************************************************************************)
(* C8.  Each callback is invoked with the events in the order of the       *)
(* queue_event calls, and with no event twice.                             *)
(***************************************************************************)
C8_DeliveredInPublishOrder ==
    \A c \in Clients : \A i, j \in DOMAIN invoked[c] :
        i < j => invoked[c][i] < invoked[c][j]

\* both callbacks got the events in order, callback 2 from the second one on
C8_Witness ==
    /\ invoked[1] = <<1, 2, 3>>
    /\ invoked[2] = <<2, 3>>

(***************************************************************************)
(* C12.  music_start with a song_id that is not a key of song_mapping      *)
(* raises ValueError, enqueues no command and leaves currently_playing and *)
(* the audio engine as they were.                                          *)
(***************************************************************************)
C12_UnknownSongRefused ==
    [][\A id \in SongIdArgs :
          (music_start(id) /\ id \notin {"1", "2", "3", "4"})
          => /\ music_result' = "ValueError"
             /\ UNCHANGED <<music_events, music_submitted, music_applied,
                            currently_playing, engine_track, music_task>>]_vars

\* the latest call was refused while song 1 was playing
C12_Witness ==
    /\ music_result = "ValueError"
    /\ music_submitted = <<StartSong("1")>>
    /\ currently_playing = "1"
    /\ engine_track = "1"

(***************************************************************************)
(* C13, as claimed.  With track A current and a music_start(B) queued, B   *)
(* in song_mapping, the next pass of the playback loop stops A, starts B,  *)
(* sets currently_playing to B and publishes a music_status that reports   *)
(* B.                                                                      *)
(***************************************************************************)
LoopTakes(b) ==
    /\ music_task = "waiting"
    /\ music_events = <<StartSong(b)>>
    /\ manage_music_event \/ manage_music_timeout

NowPlaying(b) ==
    /\ engine_track' = b
    /\ currently_playing' = b
    /\ music_events' = <<>>
    /\ Last(ev_queue').data = [currently_playing |-> b]

C14_FinishedTrackCleared ==
    [][(manage_music_event \/ manage_music_timeout) =>
          /\ (engine_track = "none" /\ music_events = <<>>) =>
                /\ currently_playing' = "none"
                /\ Last(ev_queue').data = [currently_playing |-> "none"]
          /\ engine_track' = "none" =>
                Last(ev_queue').data = [currently_playing |-> "none"]]_vars

\* song 1 was started, ended by itself and was cleared by the loop: no stop
\* command was ever submitted
C14_Witness ==
    /\ music_submitted = <<StartSong("1")>>
    /\ music_applied = <<StartSong("1")>>
    /\ song_files["1"] = "ok"
    /\ currently_playing = "none"
    /\ engine_track = "none"
    /\ ev_queue # <<>>
    /\ Last(ev_queue).data = [currently_playing |-> "none"]

(***************************************************************************)
(* C11.  stop() of either controller, called at any suspension point of    *)
(* the loops, completes; when it returns every loop task has ended, every  *)
(* fan output is low and playback is stopped; no loop drives the hardware  *)
(* afterwards; and a stop() with no task to cancel (a second stop(), or a  *)
(* stop() before any start()) leaves the outputs de-energised.             *)
(***************************************************************************)
FansStopped ==
    /\ stop_wait = NoFan
    /\ \A f \in Fans : fan_tasks[f] = "none"

FansOff == \A f \in Fans : pin[f] # "HIGH"

MusicStopped ==
    /\ music_task = "none"
    /\ engine_track = "none"

C11_StopTerminatesAndDeenergises ==
    /\ (stop_wait # NoFan) ~> (FansStopped /\ FansOff)
    /\ (music_task \in {"cancelling", "done"}) ~> MusicStopped
    /\ [][/\ ((FanController_stop \/ FanController_stop_resume) /\ stop_wait' = NoFan)
                => (FansStopped' /\ FansOff')
          /\ ((MusicController_stop \/ MusicController_stop_resume)
                 /\ music_task' \notin {"cancelling", "done"}) => MusicStopped'
          /\ FansStopped => (gpio_calls' = gpio_calls /\ FansOff')
          /\ music_task = "none" => engine_track' = "none"]_vars

\* both controllers were stopped while fan 0 was energised and song 1 was
\* current: the tasks are gone, the pin is low and the engine is silent
C11_Witness ==
    /\ FansStopped
    /\ ~gpio_ready
    /\ fan_states[0].gpio_on
    /\ gpio_calls[0] = <<"HIGH">>
    /\ pin[0] = "LOW"
    /\ MusicStopped
    /\ ~mixer_ready
    /\ currently_playing = "1"

(***************************************************************************)
(* C15.  Once remove_client(callback) has returned, also when it is called *)
(* while a dispatch cycle is in progress, the dispatcher never invokes     *)
(* that callback again.  (A callback that is known, not registered and has *)
(* not failed was removed by remove_client.)                               *)
(***************************************************************************)
C15_RemovedNeverInvoked ==
    [][\A c \in (known \ clients) \ failed : invoked'[c] = invoked[c]]_vars

(***************************************************************************)
(* C17.  queue_event puts every event at the tail of the queue, dropping   *)
(* none; and while the dispatcher runs, an event in the queue is           *)
(* eventually handed to every callback that is registered and stays        *)
(* registered (it is neither removed nor evicted).                         *)
(***************************************************************************)
Queued(k) == \E i \in DOMAIN ev_queue : ev_queue[i].id = k

Got(c, k) == \E i \in DOMAIN invoked[c] : invoked[c][i] = k

C17_PublishedIsDelivered ==
    /\ [][published' # published =>
             ev_queue' = Append(ev_queue, [type |-> "event", id |-> published'])]_vars
    /\ \A k \in 1 .. MaxEvents : \A c \in Clients :
          (dispatcher_task # "none" /\ c \in clients /\ Queued(k))
             ~> (c \notin clients \/ Got(c, k))

\* callback 1 has got all three events; callback 2, registered while event 3
\* was still queued, has got event 3; both are still registered
C17_Witness ==
    /\ published = 3
    /\ ev_queue = <<>>
    /\ clients = {1, 2}
    /\ invoked[1] = <<1, 2, 3>>
    /\ invoked[2] = <<3>>
    /\ dispatcher_task = "waiting"

(***************************************************************************)
(* C16.  With no stop() called, no loop task ever ends: an iteration in    *)
(* which a driver call raises leaves the task in its one-second backoff,   *)
(* and what follows the backoff is a further iteration, which for a fan    *)
(* applies the queued commands, drives the pin as the state asks and       *)
(* publishes, and for the music loop waits for the next command.           *)
(***************************************************************************)
Alive(task) == task \in {"new", "waiting", "backoff"}

C16_LoopsSurviveFaults ==
    /\ [](/\ \A f \in Fans : fan_tasks[f] # "none" => Alive(fan_tasks[f])
          /\ music_task # "none" => Alive(music_task))
    /\ [][/\ \A f \in Fans :
                (fan_tasks[f] = "backoff" /\ fan_tasks'[f] # "backoff") =>
                   /\ fan_tasks'[f] = "waiting"
                   /\ fan_queues'[f] = <<>>
                   /\ applied'[f] = applied[f] \o fan_queues[f]
                   /\ fan_states'[f].gpio_on <=> fan_states'[f].remaining_seconds > 0
                   /\ ev_queue' = Append(ev_queue, FanStatusEvent(fan_states'))
          /\ (music_task = "backoff" /\ music_task' # "backoff") => music_task' = "waiting"
          /\ faults'.fan # faults.fan =>
                \E f \in Fans : /\ gpio_calls'[f] # gpio_calls[f]
                                 /\ fan_tasks'[f] = "backoff"
          /\ faults'.music # faults.music => music_task' = "backoff"]_vars

\* the first HIGH of fan 0 raised; after the backoff the loop drove the pin
\* high, and low when the second ran out.  get_busy() raised while song 1 was
\* current; the loop went on and cleared currently_playing when the track ended
C16_Witness ==
    /\ faults = [fan |-> 1, music |-> 1]
    /\ applied[0] = <<TurnOn(0, 1)>>
    /\ gpio_calls[0] = <<"HIGH_RAISED", "HIGH", "LOW">>
    /\ fan_tasks[0] = "waiting"
    /\ music_applied = <<StartSong("1")>>
    /\ currently_playing = "none"
    /\ music_task = "waiting"

(***************************************************************************)
(* C18.  In the fan loop gpio_on goes from false to true only with         *)
(* remaining_seconds > 0 and from true to false only with                  *)
(* remaining_seconds at 0, each in a pass of that fan's loop and together  *)
(* with the HIGH, respectively LOW, call on its pin; and no pass makes     *)
(* more than one drive call.                                               *)
(***************************************************************************)
LoopStep(f) == manage_fan_begin(f) \/ manage_fan_event(f) \/ manage_fan_timeout(f)

C18_GpioOnFollowsRemaining ==
    [][\A f \in Fans :
          /\ (~fan_states[f].gpio_on /\ fan_states'[f].gpio_on) =>
                /\ LoopStep(f)
                /\ fan_states'[f].remaining_seconds > 0
                /\ gpio_calls'[f] = Append(gpio_calls[f], "HIGH")
                /\ pin'[f] = "HIGH"
          /\ (fan_states[f].gpio_on /\ ~fan_states'[f].gpio_on /\ ~FanController_start) =>
                /\ LoopStep(f)
                /\ fan_states'[f].remaining_seconds = 0
                /\ gpio_calls'[f] = Append(gpio_calls[f], "LOW")
                /\ pin'[f] = "LOW"
          /\ Len(gpio_calls'[f]) <= Len(gpio_calls[f]) + 1
          /\ gpio_calls'[f] # gpio_calls[f] =>
                fan_states'[f].gpio_on # fan_states[f].gpio_on]_vars

\* fan 0 was energised, ran down, and was energised again by a second fan_on
C18_Witness ==
    /\ applied[0] = <<TurnOn(0, 1), TurnOn(0, 2)>>
    /\ gpio_calls[0] = <<"HIGH", "LOW", "HIGH">>
    /\ fan_states[0].gpio_on
    /\ fan_states[0].remaining_seconds = 1

(***************************************************************************)
(* C19.  In every state outside the locked section gpio_on of a fan is     *)
(* true exactly when the level last driven on its pin is high, also in the *)
(* state that stop() leaves behind and after a start() while running.      *)
(***************************************************************************)
C19_GpioOnMirrorsPin ==
    \A f \in Fans : fan_states[f].gpio_on <=> pin[f] = "HIGH"

(***************************************************************************)
(* C20.  remaining_seconds of a fan goes down only by 1, only from a value *)
(* above 0 and only in a pass that follows a timeout of wait_for; and the  *)
(* snapshot published by the pass that applies a fan_on(f, d) as its last  *)
(* command for f shows remaining_seconds = total_seconds = d.              *)
(***************************************************************************)
C20_CommandPreemptsDecrement ==
    [][\A f \in Fans :
          /\ (applied'[f] # applied[f] /\ Last(applied'[f]).type = "turn_on") =>
                Last(ev_queue').data[f] =
                   [remaining_seconds |-> Last(applied'[f]).duration_seconds,
                    total_seconds |-> Last(applied'[f]).duration_seconds]
          /\ (/\ fan_states'[f].remaining_seconds < fan_states[f].remaining_seconds
              /\ applied'[f] = applied[f]
              /\ ~FanController_start) =>
                /\ manage_fan_timeout(f)
                /\ fan_states'[f].remaining_seconds = fan_states[f].remaining_seconds - 1
          /\ (manage_fan_event(f) /\ ~manage_fan_timeout(f)) =>
                applied'[f] # applied[f]]_vars

\* a second fan_on(0, 2) was applied to the energised fan 0: the snapshot the
\* pass published shows 2 of 2
C20_Witness ==
    /\ applied[0] = <<TurnOn(0, 2), TurnOn(0, 2)>>
    /\ gpio_calls[0] = <<"HIGH">>
    /\ ev_queue # <<>>
    /\ Last(ev_queue).data[0] = [remaining_seconds |-> 2, total_seconds |-> 2]
    /\ fan_states[0].remaining_seconds = 2

(***************************************************************************)
(* C21.  With a fan_on(f, d) as the only command of fan f: while the fan   *)
(* is energised fewer than d timeouts have elapsed since the HIGH call and *)
(* remaining_seconds is d less their number; and when the LOW call has     *)
(* been made exactly d timeouts have elapsed, the d-th in the pass that    *)
(* made the call.                                                          *)
(***************************************************************************)
C21_LowAfterExactlyDTimeouts ==
    \A f \in Fans : \A d \in Durations :
        submitted[f] = <<TurnOn(f, d)>> =>
            /\ (fan_states[f].gpio_on /\ gpio_calls[f] = <<"HIGH">>) =>
                  /\ ticks[f] < d
                  /\ fan_states[f].remaining_seconds = d - ticks[f]
            /\ gpio_calls[f] = <<"HIGH", "LOW">> => ticks[f] = d

\* fan 0 was driven low after the second timeout of a fan_on(0, 2)
C21_Witness ==
    /\ submitted[0] = <<TurnOn(0, 2)>>
    /\ gpio_calls[0] = <<"HIGH", "LOW">>
    /\ ticks[0] = 2
    /\ ~fan_states[0].gpio_on

(***************************************************************************)
(* C22.  Fans are isolated: a fan_on or a fan_off for fan i, and a step of *)
(* the loop of fan i (applying commands, the drive calls, the decrement),  *)
(* leave remaining_seconds, total_seconds and gpio_on of every other fan   *)
(* and the level of every other fan's pin as they were.                    *)
(***************************************************************************)
C22_FansAreIsolated ==
    [][\A i \in Fans :
          (\/ \E d \in Durations : fan_on(i, d)
           \/ fan_off(i)
           \/ LoopStep(i)) =>
              \A j \in Fans \ {i} :
                  /\ fan_states'[j] = fan_states[j]
                  /\ pin'[j] = pin[j]]_vars

\* fans 0 and 1 run side by side, a timeout of the loop of fan 0 has counted
\* fan 0 down and fan 1 has all of its time left
C22_Witness ==
    /\ applied[0] = <<TurnOn(0, 2)>>
    /\ applied[1] = <<TurnOn(1, 2)>>
    /\ fan_states[0] = [remaining_seconds |-> 1, total_seconds |-> 2, gpio_on |-> TRUE]
    /\ fan_states[1] = [remaining_seconds |-> 2, total_seconds |-> 2, gpio_on |-> TRUE]
    /\ pin[0] = "HIGH"
    /\ pin[1] = "HIGH"

(***************************************************************************)
(* C23.  After a start() a fan is energised, or given time to run, only by *)
(* a pass that applies a fan_on sent after that start(): the commands sent *)
(* before it have no effect on the restarted controller.                   *)
(***************************************************************************)
\* the commands a step applies to fan f, and the turn_on commands among them
NewlyApplied(f) == SubSeq(applied'[f], Len(applied[f]) + 1, Len(applied'[f]))

NewlyOn(f) == {k \in DOMAIN NewlyApplied(f) : NewlyApplied(f)[k].type = "turn_on"}

LastOn(f) == NewlyApplied(f)[CHOOSE k \in NewlyOn(f) : \A j \in NewlyOn(f) : j <= k]

C23_RestartIgnoresEarlierCommands ==
    [][\A f \in Fans :
          (\/ fan_states'[f].gpio_on /\ ~fan_states[f].gpio_on
           \/ fan_states'[f].remaining_seconds > fan_states[f].remaining_seconds) =>
              \E k \in NewlyOn(f) : k > stale[f]]_vars

(***************************************************************************)
(* C24.  A fan_off sets remaining_seconds to 0 and leaves total_seconds at *)
(* the duration of the most recent fan_on.  total_seconds changes only in  *)
(* a pass that applies a fan_on, to that fan_on's duration, and in         *)
(* start(): never by a fan_off, the decrement or the drive calls.          *)
(***************************************************************************)
C24_OffKeepsTotal ==
    [][\A f \in Fans :
          /\ (NewlyApplied(f) # <<>> /\ Last(NewlyApplied(f)).type = "turn_off") =>
                fan_states'[f].remaining_seconds = 0
          /\ NewlyOn(f) # {} =>
                fan_states'[f].total_seconds = LastOn(f).duration_seconds
          /\ (NewlyOn(f) = {} /\ ~FanController_start) =>
                fan_states'[f].total_seconds = fan_states[f].total_seconds]_vars

\* a fan_off was applied to fan 0 while it ran for 2 seconds: it is off and
\* total_seconds is still 2
C24_Witness ==
    /\ applied[0] = <<TurnOn(0, 2), TurnOff(0)>>
    /\ gpio_calls[0] = <<"HIGH", "LOW">>
    /\ fan_states[0] = [remaining_seconds |-> 0, total_seconds |-> 2, gpio_on |-> FALSE]

(***************************************************************************)
(* C25.  No deadlock on the state locks: whenever the tasks are suspended, *)
(* in wait_for, in the backoff or in stop()'s await, neither lock is held  *)
(* and no task waits for one, so every acquisition is followed by its      *)
(* release within the same run of the task; and a call of get_fan_status   *)
(* or get_music_status returns, also after stop() has cancelled the loops. *)
(***************************************************************************)
C25_LocksNeverBlock ==
    /\ fan_states_lock = "free"
    /\ music_state_lock = "free"
    /\ \A f \in Fans : fan_tasks[f] # "blocked"
    /\ music_task # "blocked"
    /\ fan_status_calls < MaxStatus => ENABLED api_get_fan_status
    /\ music_status_calls < MaxStatus => ENABLED api_get_music_status

\* both controllers are stopped after their loops applied a command under
\* the lock; get_fan_status has returned and get_music_status can
C25_Witness ==
    /\ FansStopped
    /\ MusicStopped
    /\ applied[0] # <<>>
    /\ music_applied # <<>>
    /\ fan_status_calls = 1
    /\ music_status_calls = 0
    /\ ENABLED api_get_music_status

====
